---------------------------- MODULE Spec2Model ----------------------------
(***************************************************************************)
(* A model of the URL checkers of chrashdi/bu-automation:                  *)
(*   "general"  src/check_urls_status.py  (URL Status Checker)             *)
(*   "kayako"   src/url_checker.py        (Kayako URL Checker Tool)        *)
(*   "retest"   src/retest_timeouts.py    (Retest Timeout URLs Tool)       *)
(*                                                                         *)
(* A line of text is a sequence of one-character strings; a page body and  *)
(* an exception description are sequences of words.  A clock value is a    *)
(* number of ticks of 0.1 s.                                               *)
(***************************************************************************)
EXTENDS Integers, Sequences, FiniteSets, TLC

VARIABLES
    variant,            \* which of the three scripts runs
    lines,              \* the input file: f.readlines(), line terminators left out
    all_rows,           \* retest main(): the rows of INPUT_CSV
    updated_results,    \* retest main(): the dict of the retest results, by URL
    urls,               \* main(): urls, the inputs submitted to the pool
    dpc,                \* main(): where the dispatcher is
    pc,                 \* per task: where its check_url call is
    attempt,            \* per task: index into ['HEAD', 'GET'] (retest), 0 otherwise
    lock,               \* rate_limiter_lock: the task holding it, 0 when free
    last_request_time,  \* last_request_time[0]
    now,                \* the latest value the clock has been seen to have
    current_time,       \* per task: wait_for_rate_limit's local current_time
    called,             \* per task: the time it called wait_for_rate_limit at
    io,                 \* per task: what it did outside itself, in order
    ret,                \* per task: what its call returned (or raised)
    results,            \* main(): results
    completed,          \* main(): completed
    collected,          \* the futures as_completed has yielded so far
    output              \* the rows written to OUTPUT_FILE, <<>> before the write

vars == <<variant, lines, all_rows, updated_results, urls, dpc, pc, attempt, lock,
          last_request_time, now, current_time, called, io, ret, results, completed,
          collected, output>>

(***************************************************************************)
(* Bounds of the model.                                                    *)
(***************************************************************************)
MaxLines == 3       \* lines of an input file
MaxPieces == 2      \* pieces a probed line is put together from
Horizon == 3        \* ticks the clock may advance during a run

(***************************************************************************)
(* Constants of the scripts, scaled down to the size of the inputs above:  *)
(* the pool is MAX_WORKERS = 20 threads wide and main() pauses at every    *)
(* 100th completion.                                                       *)
(***************************************************************************)
MAX_WORKERS == 2
PAUSE_EVERY == 2

Variants == {"general", "kayako", "retest"}

(***************************************************************************)
(* Strings.                                                                *)
(***************************************************************************)
White == {" ", "\t"}

LowerChar(c) ==
    CASE c = "U" -> "u" [] c = "R" -> "r" [] c = "L" -> "l"
      [] c = "D" -> "d" [] c = "H" -> "h" [] c = "T" -> "t"
      [] c = "P" -> "p" [] c = "S" -> "s" [] c = "A" -> "a"
      [] OTHER -> c

\* str.lower()
Lower(s) == [i \in DOMAIN s |-> LowerChar(s[i])]

RECURSIVE LStrip(_)
LStrip(s) == IF s # <<>> /\ Head(s) \in White THEN LStrip(Tail(s)) ELSE s

RECURSIVE RStrip(_)
RStrip(s) ==
    IF s # <<>> /\ s[Len(s)] \in White THEN RStrip(SubSeq(s, 1, Len(s) - 1)) ELSE s

\* str.strip()
Strip(s) == RStrip(LStrip(s))

\* str.startswith(p)
StartsWith(s, p) == Len(s) >= Len(p) /\ SubSeq(s, 1, Len(p)) = p

\* c in s
HasChar(s, c) == \E i \in DOMAIN s : s[i] = c

\* s.split(c)[0]: the text before the first c, all of s when there is none
BeforeFirst(s, c) ==
    IF HasChar(s, c)
    THEN SubSeq(s, 1, (CHOOSE i \in DOMAIN s : s[i] = c /\ \A j \in 1..(i - 1) : s[j] # c) - 1)
    ELSE s

S_http == <<"h", "t", "t", "p", ":", "/", "/">>
S_https == <<"h", "t", "t", "p", "s", ":", "/", "/">>
S_url == <<"u", "r", "l">>
S_domain == <<"d", "o", "m", "a", "i", "n">>
S_instance_name == <<"i", "n", "s", "t", "a", "n", "c", "e", " ", "n", "a", "m", "e">>

\* url.startswith(('http://', 'https://'))
HasScheme(s) == StartsWith(s, S_http) \/ StartsWith(s, S_https)

(***************************************************************************)
(* Texts of words: page bodies and exception descriptions.                 *)
(***************************************************************************)
LowerWord(w) ==
    CASE w = "Oops" -> "oops" [] w = "OOPS" -> "oops"
      [] w = "Kayako" -> "kayako" [] w = "KAYAKO" -> "kayako"
      [] w = "Site" -> "site"
      [] w = "SSL" -> "ssl" [] w = "Certificate" -> "certificate"
      [] w = "Name" -> "name" [] w = "Refused" -> "refused"
      [] w = "Connection" -> "connection"
      [] OTHER -> w

LowerText(t) == [i \in DOMAIN t |-> LowerWord(t[i])]

\* needle in text
Within(needle, text) ==
    \E i \in 0..(Len(text) - Len(needle)) :
        SubSeq(text, i + 1, i + Len(needle)) = needle


(***************************************************************************)
(* Configuration of the three scripts.                                     *)
(***************************************************************************)
\* REQUEST_DELAY, in ticks: 0.3 s and 0.5 s; the retest script has none
REQUEST_DELAY(v) == IF v = "general" THEN 3 ELSE 5

\* TIMEOUT, in seconds
TIMEOUT(v) == CASE v = "general" -> 15 [] v = "kayako" -> 20 [] OTHER -> 30

ERROR_MESSAGE_OOPS == <<"Oops", "something", "has", "gone", "wrong">>
KAYAKO_ERROR_MESSAGE == <<"Kayako", "instance", "does", "not", "exist">>
SITE_UNREACHABLE == <<"site", "can't", "be", "reached">>
THIS_SITE_UNREACHABLE == <<"this">> \o SITE_UNREACHABLE

\* HasRateLimiter of a checker whose calls never wait at the rate limiter
HasRateLimiter_Never(v) == FALSE

\* the rate limiter exists in the general and the Kayako checker only
HasRateLimiter(v) == v \in {"general", "kayako"}

\* check_dns is called by the general checker only
HasDnsCheck(v) == v = "general"

\* for method in ['HEAD', 'GET'] in the retest script; one GET in the others
\* Methods with GET ahead of HEAD
Methods_GetFirst(v) == IF v = "retest" THEN <<"GET", "HEAD">> ELSE <<"GET">>

Methods(v) == IF v = "retest" THEN <<"HEAD", "GET">> ELSE <<"GET">>

(***************************************************************************)
(* The fields of a result tuple.  A text is a literal, then a number when  *)
(* num >= 0, then exc characters taken from an exception's description.    *)
(* http_code is an int or a str.                                           *)
(***************************************************************************)
T(lit) == [lit |-> lit, num |-> -1, exc |-> 0]
TN(lit, n) == [lit |-> lit, num |-> n, exc |-> 0]
TE(lit, k) == [lit |-> lit, num |-> -1, exc |-> k]
IntCode(n) == [isint |-> TRUE, n |-> n, s |-> <<>>]
StrCode(w) == [isint |-> FALSE, n |-> 0, s |-> w]

Min(a, b) == IF a < b THEN a ELSE b
Max(a, b) == IF a > b THEN a ELSE b

\* the record's fields, as the tuples index them (r[0], r[1], ... in Python)
RUrl(r) == r[1]
RStatus(r) == r[2]
RCode(r) == r[3]
RMessage(r) == r[4]

(***************************************************************************)
(* From the line to the URL: what check_url does before the rate limiter.  *)
(***************************************************************************)
\* normalize_url of url_checker.py and retest_timeouts.py; None is <<>>
\* (the callers test "not normalized_url", and no URL returned is empty)
normalize_url(v, url_line) ==
    LET s == Strip(url_line) IN
    IF s = <<>> THEN <<>>
    ELSE IF v = "kayako" /\ Lower(s) \in {S_instance_name, S_url, S_domain} THEN <<>>
    ELSE IF ~HasScheme(s) THEN S_https \o s
    ELSE s

\* check_urls_status.py, check_url: the skip test of line 69
GeneralSkips(url) ==
    LET original_url == Strip(url) IN
    original_url = <<>> \/ Lower(original_url) = S_url

\* GeneralOriginal that leaves the comment in
GeneralOriginal_KeepComment(url) == Strip(url)

\* check_urls_status.py, check_url: original_url after the comment is removed
GeneralOriginal(url) ==
    LET original_url == Strip(url) IN
    IF HasChar(original_url, "#")
    THEN Strip(BeforeFirst(original_url, "#"))
    ELSE original_url

\* check_urls_status.py, check_url: normalized_url
GeneralNormalized(url) ==
    LET normalized_url == GeneralOriginal(url) IN
    IF ~HasScheme(normalized_url) THEN S_https \o normalized_url ELSE normalized_url

\* whether the call returns before any request
Skips(v, url) ==
    IF v = "general" THEN GeneralSkips(url) ELSE normalize_url(v, url) = <<>>

\* original_url, the first field of every record of the call
OriginalUrl(v, url) ==
    IF v = "general"
    THEN (IF GeneralSkips(url) THEN Strip(url) ELSE GeneralOriginal(url))
    ELSE url

\* normalized_url, the URL requested
NormalizedUrl(v, url) ==
    IF v = "general" THEN GeneralNormalized(url) ELSE normalize_url(v, url)

\* the record returned without a request
\* SkipRecord with the status in the place of the HTTP code
SkipRecord_CodeSkipped(v, url) ==
    CASE v = "general" ->
           <<OriginalUrl(v, url), T(<<"Skipped">>), StrCode(<<"Skipped">>),
             T(<<"Empty", "or", "header", "line">>), T(<<"N/A">>)>>
      [] v = "kayako" ->
           <<OriginalUrl(v, url), T(<<"Skipped">>), StrCode(<<"Skipped">>),
             T(<<"Empty", "or", "header", "line">>)>>
      [] OTHER ->
           <<OriginalUrl(v, url), T(<<"Inactive">>), StrCode(<<"Skipped">>),
             T(<<"Empty", "URL">>)>>

SkipRecord(v, url) ==
    CASE v = "general" ->
           <<OriginalUrl(v, url), T(<<"Skipped">>), StrCode(<<"N/A">>),
             T(<<"Empty", "or", "header", "line">>), T(<<"N/A">>)>>
      [] v = "kayako" ->
           <<OriginalUrl(v, url), T(<<"Skipped">>), StrCode(<<"N/A">>),
             T(<<"Empty", "or", "header", "line">>)>>
      [] OTHER ->
           <<OriginalUrl(v, url), T(<<"Inactive">>), StrCode(<<"N/A">>),
             T(<<"Empty", "URL">>)>>

(***************************************************************************)
(* What the network can answer.  An outcome of a request is a response     *)
(* (status code and body) or an exception (its class, its description      *)
(* str(e) as words, and the description's length in characters).           *)
(***************************************************************************)
Response(code, body) ==
    [kind |-> "response", status |-> code, body |-> body,
     exc |-> "", desc |-> <<>>, len |-> 0]

Raised(class, desc, n) ==
    [kind |-> "exception", status |-> 0, body |-> <<>>,
     exc |-> class, desc |-> desc, len |-> n]

\* The classes an "except C" clause catches an exception of each class by:
\* the class and its bases, in requests.exceptions and the builtins.
Bases(class) ==
    CASE class = "ReadTimeout" -> {"Timeout", "RequestException", "Exception"}
      [] class = "ConnectTimeout" ->
           {"ConnectionError", "Timeout", "RequestException", "Exception"}
      [] class = "SSLError" ->
           {"SSLError", "ConnectionError", "RequestException", "Exception"}
      [] class = "ConnectionError" -> {"ConnectionError", "RequestException", "Exception"}
      [] class = "TooManyRedirects" ->
           {"TooManyRedirects", "RequestException", "Exception"}
      [] class = "InvalidURL" -> {"RequestException", "Exception"}
      [] OTHER -> {"Exception"}

\* Handlers with the clause of ConnectionError before the clause of Timeout
Handlers_ConnectionFirst(v) ==
    CASE v = "general" ->
           <<"ConnectionError", "Timeout", "SSLError", "TooManyRedirects",
             "RequestException", "Exception">>
      [] v = "kayako" ->
           <<"ConnectionError", "Timeout", "TooManyRedirects",
             "RequestException", "Exception">>
      [] OTHER ->
           <<"ConnectionError", "Timeout", "TooManyRedirects", "SSLError",
             "RequestException", "Exception">>

\* Handlers without the last clause, "except Exception"
Handlers_NoCatchAll(v) ==
    CASE v = "general" ->
           <<"Timeout", "SSLError", "ConnectionError", "TooManyRedirects",
             "RequestException">>
      [] v = "kayako" ->
           <<"Timeout", "ConnectionError", "TooManyRedirects", "RequestException">>
      [] OTHER ->
           <<"Timeout", "ConnectionError", "TooManyRedirects", "SSLError",
             "RequestException">>

\* the except clauses after the request, in the order of the source
Handlers(v) ==
    CASE v = "general" ->
           <<"Timeout", "SSLError", "ConnectionError", "TooManyRedirects",
             "RequestException", "Exception">>
      [] v = "kayako" ->
           <<"Timeout", "ConnectionError", "TooManyRedirects",
             "RequestException", "Exception">>
      [] OTHER ->
           <<"Timeout", "ConnectionError", "TooManyRedirects", "SSLError",
             "RequestException", "Exception">>

\* the first except clause that catches the exception; "" when none does
Handler(v, class) ==
    LET hs == Handlers(v)
        hit == {i \in DOMAIN hs : hs[i] \in Bases(class)}
    IN  IF hit = {} THEN "" ELSE hs[CHOOSE i \in hit : \A j \in hit : i <= j]

\* what a step of check_url ends in: a returned record, the next method of
\* the retest loop, or an exception that leaves the function
Return(rec) == [act |-> "return", rec |-> rec]
Continue == [act |-> "continue", rec |-> <<>>]
Raise == [act |-> "raise", rec |-> <<>>]

(***************************************************************************)
(* Classification of a response.                                           *)
(***************************************************************************)
\* GeneralOnResponse that looks at the status code before the body
GeneralOnResponse_StatusFirst(original_url, o) ==
    LET http_code == o.status
        page_content == LowerText(o.body)
    IN  IF 200 <= http_code /\ http_code < 400
        THEN IF Within(LowerText(ERROR_MESSAGE_OOPS), page_content)
             THEN <<original_url, T(<<"Error", "Page">>), IntCode(http_code),
                    T(ERROR_MESSAGE_OOPS), T(<<"Application", "Error">>)>>
             ELSE <<original_url, T(<<"Working">>), IntCode(http_code), T(<<>>),
                    T(<<"Success">>)>>
        ELSE IF http_code >= 400
        THEN <<original_url, TN(<<"HTTP">>, http_code), IntCode(http_code),
               TN(<<"HTTP", "Error">>, http_code), T(<<"HTTP", "Error">>)>>
        ELSE <<original_url, T(<<"Unknown", "Status">>), IntCode(http_code),
               TN(<<"Unexpected", "status", "code:">>, http_code), T(<<"Unknown">>)>>

\* GeneralOnResponse that takes the codes from 100 on for a success and
\* the codes above 400 for an error
GeneralOnResponse_From100(original_url, o) ==
    LET http_code == o.status
        page_content == LowerText(o.body)
    IN  IF Within(LowerText(ERROR_MESSAGE_OOPS), page_content)
        THEN <<original_url, T(<<"Error", "Page">>), IntCode(http_code),
               T(ERROR_MESSAGE_OOPS), T(<<"Application", "Error">>)>>
        ELSE IF Within(THIS_SITE_UNREACHABLE, page_content)
                \/ Within(SITE_UNREACHABLE, page_content)
        THEN <<original_url, T(<<"Site", "Unreachable">>), IntCode(http_code),
               T(<<"Site", "can't", "be", "reached">>), T(<<"Connection", "Error">>)>>
        ELSE IF 100 <= http_code /\ http_code < 400
        THEN <<original_url, T(<<"Working">>), IntCode(http_code), T(<<>>),
               T(<<"Success">>)>>
        ELSE IF http_code > 400
        THEN <<original_url, TN(<<"HTTP">>, http_code), IntCode(http_code),
               TN(<<"HTTP", "Error">>, http_code), T(<<"HTTP", "Error">>)>>
        ELSE <<original_url, T(<<"Unknown", "Status">>), IntCode(http_code),
               TN(<<"Unexpected", "status", "code:">>, http_code), T(<<"Unknown">>)>>

\* check_urls_status.py, lines 100-119
GeneralOnResponse(original_url, o) ==
    LET http_code == o.status
        page_content == LowerText(o.body)
    IN  IF Within(LowerText(ERROR_MESSAGE_OOPS), page_content)
        THEN <<original_url, T(<<"Error", "Page">>), IntCode(http_code),
               T(ERROR_MESSAGE_OOPS), T(<<"Application", "Error">>)>>
        ELSE IF Within(THIS_SITE_UNREACHABLE, page_content)
                \/ Within(SITE_UNREACHABLE, page_content)
        THEN <<original_url, T(<<"Site", "Unreachable">>), IntCode(http_code),
               T(<<"Site", "can't", "be", "reached">>), T(<<"Connection", "Error">>)>>
        ELSE IF 200 <= http_code /\ http_code < 400
        THEN <<original_url, T(<<"Working">>), IntCode(http_code), T(<<>>),
               T(<<"Success">>)>>
        ELSE IF http_code >= 400
        THEN <<original_url, TN(<<"HTTP">>, http_code), IntCode(http_code),
               TN(<<"HTTP", "Error">>, http_code), T(<<"HTTP", "Error">>)>>
        ELSE <<original_url, T(<<"Unknown", "Status">>), IntCode(http_code),
               TN(<<"Unexpected", "status", "code:">>, http_code), T(<<"Unknown">>)>>

\* KayakoOnResponse that looks at the body before the status code
KayakoOnResponse_MarkerFirst(original_url, o) ==
    LET http_code == o.status
        page_content == o.body
    IN  IF Within(LowerText(KAYAKO_ERROR_MESSAGE), LowerText(page_content))
        THEN <<original_url, T(<<"Instance", "unavailable">>), IntCode(http_code),
               T(KAYAKO_ERROR_MESSAGE)>>
        ELSE IF 200 <= http_code /\ http_code < 400
        THEN <<original_url, T(<<"Active", "Kayako">>), IntCode(http_code), T(<<>>)>>
        ELSE <<original_url, T(<<"Inactive">>), IntCode(http_code),
               TN(<<"HTTP">>, http_code)>>

\* url_checker.py, lines 87-100
KayakoOnResponse(original_url, o) ==
    LET http_code == o.status
        page_content == o.body
    IN  IF 200 <= http_code /\ http_code < 400
        THEN IF Within(LowerText(KAYAKO_ERROR_MESSAGE), LowerText(page_content))
             THEN <<original_url, T(<<"Instance", "unavailable">>), IntCode(http_code),
                    T(KAYAKO_ERROR_MESSAGE)>>
             ELSE <<original_url, T(<<"Active", "Kayako">>), IntCode(http_code), T(<<>>)>>
        ELSE <<original_url, T(<<"Inactive">>), IntCode(http_code),
               TN(<<"HTTP">>, http_code)>>

\* retest_timeouts.py, lines 62-68
RetestOnResponse(original_url, o) ==
    LET http_code == o.status
    IN  IF 200 <= http_code /\ http_code < 400
        THEN <<original_url, T(<<"Active">>), IntCode(http_code), T(<<>>)>>
        ELSE <<original_url, T(<<"Inactive">>), IntCode(http_code),
               TN(<<"HTTP">>, http_code)>>

OnResponse(v, original_url, o) ==
    CASE v = "general" -> GeneralOnResponse(original_url, o)
      [] v = "kayako" -> KayakoOnResponse(original_url, o)
      [] OTHER -> RetestOnResponse(original_url, o)

(***************************************************************************)
(* Classification of an exception of the request.                          *)
(***************************************************************************)
W_name_not_known == <<"Name", "or", "service", "not", "known">>
W_nodename == <<"nodename", "nor", "servname">>

\* check_urls_status.py, lines 121-138
GeneralOnException(original_url, o) ==
    LET h == Handler("general", o.exc)
        error_msg == LowerText(o.desc)
    IN  CASE h = "Timeout" ->
               Return(<<original_url, T(<<"Timeout">>), StrCode(<<"Timeout">>),
                        T(<<"Request", "timeout", "-", "site", "did", "not", "respond">>),
                        T(<<"Timeout">>)>>)
          [] h = "SSLError" ->
               Return(<<original_url, T(<<"SSL", "Error">>), StrCode(<<"SSL", "Error">>),
                        TE(<<"SSL", "Certificate", "error:">>, Min(o.len, 100)),
                        T(<<"SSL", "Error">>)>>)
          [] h = "ConnectionError" ->
               IF Within(LowerText(W_name_not_known), error_msg)
                  \/ Within(W_nodename, error_msg)
               THEN Return(<<original_url, T(<<"DNS", "Error">>),
                             StrCode(<<"DNS", "Error">>),
                             T(<<"DNS_PROBE_FINISHED_NXDOMAIN">>), T(<<"DNS", "Error">>)>>)
               ELSE IF Within(<<"refused">>, error_msg)
               THEN Return(<<original_url, T(<<"Connection", "Refused">>),
                             StrCode(<<"Connection", "Error">>),
                             T(<<"Connection", "refused", "-", "site", "not", "responding">>),
                             T(<<"Connection", "Error">>)>>)
               ELSE Return(<<original_url, T(<<"Connection", "Error">>),
                             StrCode(<<"Connection", "Error">>),
                             TE(<<"Connection", "failed:">>, Min(o.len, 100)),
                             T(<<"Connection", "Error">>)>>)
          [] h = "TooManyRedirects" ->
               Return(<<original_url, T(<<"Redirect", "Error">>),
                        StrCode(<<"Redirect", "Error">>),
                        T(<<"Too", "many", "redirects">>), T(<<"Redirect", "Error">>)>>)
          [] h = "RequestException" ->
               Return(<<original_url, T(<<"Request", "Error">>),
                        StrCode(<<"Request", "Error">>),
                        TE(<<>>, Min(o.len, 150)), T(<<"Request", "Error">>)>>)
          [] h = "Exception" ->
               Return(<<original_url, T(<<"Unknown", "Error">>),
                        StrCode(<<"Unknown", "Error">>),
                        TE(<<>>, Min(o.len, 150)), T(<<"Unknown", "Error">>)>>)
          [] OTHER -> Raise

\* url_checker.py, lines 102-117
KayakoOnException(original_url, o) ==
    LET h == Handler("kayako", o.exc)
        error_msg == o.desc
    IN  CASE h = "Timeout" ->
               Return(<<original_url, T(<<"Inactive">>), StrCode(<<"Timeout">>),
                        T(<<"Request", "timeout">>)>>)
          [] h = "ConnectionError" ->
               IF Within(<<"SSL">>, error_msg)
                  \/ Within(<<"certificate">>, LowerText(error_msg))
               THEN Return(<<original_url, T(<<"Inactive">>), StrCode(<<"SSL", "Error">>),
                             T(<<"SSL/Certificate", "error">>)>>)
               ELSE IF Within(W_name_not_known, error_msg) \/ Within(W_nodename, error_msg)
               THEN Return(<<original_url, T(<<"Inactive">>), StrCode(<<"DNS", "Error">>),
                             T(<<"DNS", "resolution", "failed">>)>>)
               ELSE Return(<<original_url, T(<<"Inactive">>),
                             StrCode(<<"Connection", "Error">>),
                             T(<<"Connection", "failed">>)>>)
          [] h = "TooManyRedirects" ->
               Return(<<original_url, T(<<"Inactive">>), StrCode(<<"Redirect", "Error">>),
                        T(<<"Too", "many", "redirects">>)>>)
          [] h = "RequestException" ->
               Return(<<original_url, T(<<"Inactive">>), StrCode(<<"Request", "Error">>),
                        TE(<<>>, Min(o.len, 100))>>)
          [] h = "Exception" ->
               Return(<<original_url, T(<<"Inactive">>), StrCode(<<"Unknown", "Error">>),
                        TE(<<>>, Min(o.len, 100))>>)
          [] OTHER -> Raise

\* retest_timeouts.py, lines 70-92
RetestOnException(original_url, o, method) ==
    LET h == Handler("retest", o.exc)
        error_msg == o.desc
    IN  CASE h = "Timeout" ->
               IF method = "HEAD" THEN Continue
               ELSE Return(<<original_url, T(<<"Inactive">>), StrCode(<<"Timeout">>),
                             TN(<<"Request", "timeout", "after">>, TIMEOUT("retest"))>>)
          [] h = "ConnectionError" ->
               IF Within(<<"SSL">>, error_msg)
                  \/ Within(<<"certificate">>, LowerText(error_msg))
               THEN Return(<<original_url, T(<<"Inactive">>), StrCode(<<"SSL", "Error">>),
                             T(<<"SSL/Certificate", "error">>)>>)
               ELSE IF Within(W_name_not_known, error_msg) \/ Within(W_nodename, error_msg)
               THEN Return(<<original_url, T(<<"Inactive">>), StrCode(<<"DNS", "Error">>),
                             T(<<"DNS", "resolution", "failed">>)>>)
               ELSE IF Within(<<"Connection", "refused">>, error_msg)
                       \/ Within(<<"refused">>, LowerText(error_msg))
               THEN Return(<<original_url, T(<<"Inactive">>),
                             StrCode(<<"Connection", "Refused">>),
                             T(<<"Connection", "refused", "by", "server">>)>>)
               ELSE Return(<<original_url, T(<<"Inactive">>),
                             StrCode(<<"Connection", "Error">>),
                             T(<<"Connection", "failed">>)>>)
          [] h = "TooManyRedirects" ->
               Return(<<original_url, T(<<"Inactive">>), StrCode(<<"Redirect", "Error">>),
                        T(<<"Too", "many", "redirects">>)>>)
          [] h = "SSLError" ->
               Return(<<original_url, T(<<"Inactive">>), StrCode(<<"SSL", "Error">>),
                        TE(<<"SSL", "error:">>, Min(o.len, 100))>>)
          [] h = "RequestException" ->
               Return(<<original_url, T(<<"Inactive">>), StrCode(<<"Request", "Error">>),
                        TE(<<>>, Min(o.len, 100))>>)
          [] h = "Exception" ->
               Return(<<original_url, T(<<"Inactive">>), StrCode(<<"Unknown", "Error">>),
                        TE(<<>>, Min(o.len, 100))>>)
          [] OTHER -> Raise

\* retest_timeouts.py, line 95: the return after the loop over the methods
RetestAfterLoop(original_url) ==
    <<original_url, T(<<"Inactive">>), StrCode(<<"Timeout">>),
      TN(<<"Request", "timeout", "after">>, TIMEOUT("retest"))>>

\* one pass through the try statement around the request: the outcome o of
\* the request made with `method`, turned into what check_url does next
OnOutcome(v, original_url, o, method) ==
    IF o.kind = "response"
    THEN Return(OnResponse(v, original_url, o))
    ELSE CASE v = "general" -> GeneralOnException(original_url, o)
           [] v = "kayako" -> KayakoOnException(original_url, o)
           [] OTHER -> RetestOnException(original_url, o, method)

(***************************************************************************)
(* check_dns of the general checker: (True, None), (False, "DNS Error:     *)
(* ...") on socket.gaierror, (None, "DNS Check Error: ...") otherwise.     *)
(* The description is appended whole.                                      *)
(***************************************************************************)
DnsOk == [works |-> "True", msg |-> T(<<>>)]
DnsGaierror(n) == [works |-> "False", msg |-> TE(<<"DNS", "Error:">>, n)]
DnsOther(n) == [works |-> "None", msg |-> TE(<<"DNS", "Check", "Error:">>, n)]

\* DnsFails that takes every answer but True for a failure: "if not dns_works"
DnsFails_Falsy(d) == d.works # "True"

\* check_urls_status.py, line 86: "if dns_works is False"
DnsFails(d) == d.works = "False"

\* check_urls_status.py, line 87: the record of a failed DNS check
DnsRecord(original_url, d) ==
    <<original_url, T(<<"DNS", "Error">>), StrCode(<<"N/A">>), d.msg, T(<<"DNS", "Error">>)>>

(***************************************************************************)
(* The inputs the model draws from.                                        *)
(***************************************************************************)
\* the lines of the files of a whole run
FileLines ==
    { <<" ">>, <<"U", "R", "L">>, <<"a", " ", "#", "c">>, S_domain }

RECURSIVE SeqsUpTo(_, _)
SeqsUpTo(S, n) ==
    IF n = 0 THEN {<<>>}
    ELSE LET shorter == SeqsUpTo(S, n - 1)
         IN  shorter \cup {Append(q, x) : q \in shorter, x \in S}

Files == SeqsUpTo(FileLines, MaxLines)

\* the pieces the lines of a single call are put together from
Pieces ==
    { <<" ">>, <<"#">>, <<" ", "#", " ", "c">>, <<"a">>, <<"U", "r", "l">>, S_domain,
      S_instance_name, S_http, S_https }

RECURSIVE Concat(_)
Concat(q) == IF q = <<>> THEN <<>> ELSE Head(q) \o Concat(Tail(q))

ProbeLines == {Concat(q) : q \in SeqsUpTo(Pieces, MaxPieces)}

Codes == {100, 199, 200, 302, 399, 400, 500}

Bodies ==
    { <<>>, ERROR_MESSAGE_OOPS,
      <<"x", "OOPS", "something", "has", "gone", "wrong">>,
      KAYAKO_ERROR_MESSAGE, <<"x", "KAYAKO", "instance", "does", "not", "exist">>,
      <<"This", "Site", "can't", "be", "reached">>,
      <<"Oops", "something">> }

\* the exceptions of a timeout, and the others
TimeoutClasses == {"ReadTimeout", "ConnectTimeout"}
OtherClasses ==
    {"SSLError", "ConnectionError", "TooManyRedirects", "InvalidURL", "ValueError"}
Classes == TimeoutClasses \cup OtherClasses

Descriptions ==
    { <<>>, W_name_not_known, LowerText(W_name_not_known), W_nodename,
      <<"Connection", "refused">>, <<"Refused">>, <<"SSL">>, <<"Certificate">>,
      <<"SSL">> \o W_name_not_known, W_name_not_known \o <<"refused">> }

DescLens == {40, 120, 200}

\* every outcome of a request: the responses; the connection failures with
\* every description; the other exceptions with every length of description
ProbeOutcomes ==
    {Response(c, b) : c \in Codes, b \in Bodies}
    \cup {Raised(k, d, 120) : k \in {"SSLError", "ConnectionError"}, d \in Descriptions}
    \cup {Raised(k, <<>>, n) : k \in OtherClasses, n \in DescLens}
    \cup {Raised(k, <<>>, 40) : k \in TimeoutClasses}

\* the outcomes of the requests of a whole run
RunOutcomes == {Response(200, <<>>), Raised("ReadTimeout", <<>>, 40)}

DnsOutcomes == {DnsOk, DnsGaierror(40), DnsOther(200)}

\* the answers of the DNS check of a single call: with a long description
\* of the gaierror as well
ProbeDnsOutcomes == DnsOutcomes \cup {DnsGaierror(d) : d \in DescLens}

(***************************************************************************)
(* Reading the input file.                                                 *)
(***************************************************************************)
\* check_urls_status.py, read_urls_from_file
RECURSIVE GeneralReadUrls(_)
GeneralReadUrls(ls) ==
    IF ls = <<>> THEN <<>>
    ELSE LET url == Strip(Head(ls))
         IN  (IF url # <<>> /\ Lower(url) # S_url THEN <<url>> ELSE <<>>)
             \o GeneralReadUrls(Tail(ls))

\* url_checker.py, read_urls_from_file: the loop over lines[start_idx:]
RECURSIVE KayakoReadLines(_)
KayakoReadLines(ls) ==
    IF ls = <<>> THEN <<>>
    ELSE LET url == Strip(Head(ls))
         IN  (IF url # <<>> THEN <<url>> ELSE <<>>) \o KayakoReadLines(Tail(ls))

\* url_checker.py, read_urls_from_file
KayakoReadUrls(ls) ==
    LET start_idx ==
            IF ls # <<>> /\ Lower(Strip(ls[1])) \in {S_instance_name, S_url, S_domain}
            THEN 1 ELSE 0
    IN  KayakoReadLines(SubSeq(ls, start_idx + 1, Len(ls)))

\* read_urls_from_file that keeps every line of the file
read_urls_from_file_KeepAll(v, ls) == [k \in DOMAIN ls |-> Strip(ls[k])]

read_urls_from_file(v, ls) ==
    IF v = "general" THEN GeneralReadUrls(ls) ELSE KayakoReadUrls(ls)

(***************************************************************************)
(* The state.                                                              *)
(***************************************************************************)
Tasks == DOMAIN urls

\* The clock when the script starts.  last_request_time starts at 0 and
\* time.time() is the time since 1970, so the first caller never sleeps.
StartTime(v) == REQUEST_DELAY(v)

\* what a task did outside itself: the grant of the rate limiter, the DNS
\* lookup, and each request with the time it started at and its outcome
NoOutcome == [kind |-> "none", status |-> 0, body |-> <<>>, exc |-> "", desc |-> <<>>, len |-> 0]
Granted(t) == [kind |-> "grant", url |-> <<>>, at |-> t, got |-> NoOutcome]
DnsAnswer(d) == [NoOutcome EXCEPT !.kind = d.works]
DnsLookup(url, t) == [kind |-> "dns", url |-> url, at |-> t, got |-> NoOutcome]
Request(method, url, t, o) == [kind |-> method, url |-> url, at |-> t, got |-> o]

NotReturned == [act |-> "none", rec |-> <<>>]

\* the state in which the calls check_url(u), u in us, have been submitted
Submitted(us) ==
    /\ urls' = us
    /\ pc' = [i \in DOMAIN us |-> "queued"]
    /\ attempt' = [i \in DOMAIN us |-> 0]
    /\ current_time' = [i \in DOMAIN us |-> 0]
    /\ called' = [i \in DOMAIN us |-> 0]
    /\ io' = [i \in DOMAIN us |-> <<>>]
    /\ ret' = [i \in DOMAIN us |-> NotReturned]

\* the start of a run of the general or the Kayako checker on a file
Init ==
    /\ variant \in {"general", "kayako"}
    /\ lines \in Files
    /\ all_rows = <<>>
    /\ updated_results = <<>>
    /\ urls = <<>>
    /\ dpc = "read"
    /\ pc = <<>>
    /\ attempt = <<>>
    /\ lock = 0
    /\ last_request_time = 0
    /\ now = StartTime(variant)
    /\ current_time = <<>>
    /\ called = <<>>
    /\ io = <<>>
    /\ ret = <<>>
    /\ results = <<>>
    /\ completed = 0
    /\ collected = <<>>
    /\ output = [written |-> FALSE, header |-> <<>>, rows |-> <<>>]

\* one call of the prober, of any of the three scripts, on any line
InitProbe ==
    /\ variant \in Variants
    /\ lines = <<>>
    /\ all_rows = <<>>
    /\ updated_results = <<>>
    /\ \E line \in ProbeLines : urls = <<line>>
    /\ dpc = "none"
    /\ pc = <<"start">>
    /\ attempt = <<0>>
    /\ lock = 0
    /\ last_request_time = 0
    /\ now = StartTime(variant)
    /\ current_time = <<0>>
    /\ called = <<0>>
    /\ io = <<<<>>>>
    /\ ret = <<NotReturned>>
    /\ results = <<>>
    /\ completed = 0
    /\ collected = <<>>
    /\ output = [written |-> FALSE, header |-> <<>>, rows |-> <<>>]

(***************************************************************************)
(* The rate limiter: wait_for_rate_limit, called by task i.  The clock is  *)
(* read where the code reads it; between two reads it may have advanced by *)
(* any amount, up to the horizon h of the run (with h = 0 every step takes *)
(* no time, and only the sleep of the rate limiter advances the clock).    *)
(***************************************************************************)
\* ClockReads of a clock that can be set back between two reads
ClockReads_SetBack(from, h) == 0..Max(from, StartTime(variant) + h)

ClockReads(from, h) == from..Max(from, StartTime(variant) + h)

\* WakeTime with the sleep left out
WakeTime_NoSleep(v, current, last) == current

\* the time the sleep of wait_for_rate_limit ends at the earliest
WakeTime(v, current, last) ==
    LET time_since_last == current - last
    IN  IF time_since_last < REQUEST_DELAY(v)
        THEN current + (REQUEST_DELAY(v) - time_since_last)
        ELSE current

\* with rate_limiter_lock: current_time = time.time()
WLock(i, h) ==
    /\ i \in Tasks
    /\ pc[i] = "wait"
    /\ lock = 0
    /\ \E t \in ClockReads(now, h) :
        /\ now' = t
        /\ current_time' = [current_time EXCEPT ![i] = t]
    /\ lock' = i
    /\ pc' = [pc EXCEPT ![i] = "locked"]
    /\ UNCHANGED <<variant, lines, all_rows, updated_results, called, urls,
                   dpc, attempt, last_request_time, io, ret, results,
                   completed, collected, output>>

\* the sleep, last_request_time[0] = time.time(), and the release of the lock
WStamp(i, h) ==
    /\ i \in Tasks
    /\ pc[i] = "locked"
    /\ lock = i
    /\ \E t \in ClockReads(Max(now, WakeTime(variant, current_time[i], last_request_time)), h) :
        /\ now' = t
        /\ last_request_time' = t
        /\ io' = [io EXCEPT ![i] = Append(@, Granted(t))]
    /\ lock' = 0
    /\ current_time' = [current_time EXCEPT ![i] = 0]
    /\ pc' = [pc EXCEPT ![i] = IF HasDnsCheck(variant) THEN "dns" ELSE "request"]
    /\ UNCHANGED <<variant, lines, all_rows, updated_results, called, urls,
                   dpc, attempt, ret, results, completed, collected, output>>

(***************************************************************************)
(* The prober: check_url (check_url_with_retry in the retest script),      *)
(* called by a thread of the pool for task i.                              *)
(***************************************************************************)
Running == {i \in Tasks : pc[i] \notin {"queued", "done"}}

\* WBegin of a pool whose threads end after their first call
WBegin_NoReuse(i) ==
    /\ i \in Tasks
    /\ pc[i] = "queued"
    /\ \A j \in Tasks : j < i => pc[j] # "queued"
    /\ i <= MAX_WORKERS
    /\ pc' = [pc EXCEPT ![i] = "start"]
    /\ UNCHANGED <<variant, lines, all_rows, updated_results, called, urls,
                   dpc, attempt, lock, last_request_time, now, current_time,
                   io, ret, results, completed, collected, output>>

\* WBegin of a pool that starts a thread for every call
WBegin_NoLimit(i) ==
    /\ i \in Tasks
    /\ pc[i] = "queued"
    /\ \A j \in Tasks : j < i => pc[j] # "queued"
    /\ pc' = [pc EXCEPT ![i] = "start"]
    /\ UNCHANGED <<variant, lines, all_rows, updated_results, called, urls,
                   dpc, attempt, lock, last_request_time, now, current_time,
                   io, ret, results, completed, collected, output>>

\* a free thread of the pool takes the oldest call off the work queue
WBegin(i) ==
    /\ i \in Tasks
    /\ pc[i] = "queued"
    /\ \A j \in Tasks : j < i => pc[j] # "queued"
    /\ Cardinality(Running) < MAX_WORKERS
    /\ pc' = [pc EXCEPT ![i] = "start"]
    /\ UNCHANGED <<variant, lines, all_rows, updated_results, called, urls,
                   dpc, attempt, lock, last_request_time, now, current_time,
                   io, ret, results, completed, collected, output>>

\* from the entry of check_url to the call of wait_for_rate_limit
WStart(i) ==
    /\ i \in Tasks
    /\ pc[i] = "start"
    /\ IF Skips(variant, urls[i])
       THEN /\ ret' = [ret EXCEPT ![i] = Return(SkipRecord(variant, urls[i]))]
            /\ pc' = [pc EXCEPT ![i] = "done"]
            /\ called' = called
       ELSE /\ ret' = ret
            /\ pc' = [pc EXCEPT ![i] = IF HasRateLimiter(variant) THEN "wait" ELSE "request"]
            /\ called' = [called EXCEPT ![i] = IF HasRateLimiter(variant) THEN now ELSE @]
    /\ UNCHANGED <<variant, lines, all_rows, updated_results, urls, dpc,
                   attempt, lock, last_request_time, now, current_time, io,
                   results, completed, collected, output>>

\* dns_works, dns_error = check_dns(normalized_url), and the return on False
WDns(i, dnsOutcomes) ==
    /\ i \in Tasks
    /\ pc[i] = "dns"
    /\ \E d \in dnsOutcomes :
        /\ io' = [io EXCEPT ![i] =
                    Append(@, [DnsLookup(NormalizedUrl(variant, urls[i]), now)
                                 EXCEPT !.got = DnsAnswer(d)])]
        /\ IF DnsFails(d)
           THEN /\ ret' = [ret EXCEPT ![i] =
                             Return(DnsRecord(OriginalUrl(variant, urls[i]), d))]
                /\ pc' = [pc EXCEPT ![i] = "done"]
           ELSE /\ ret' = ret
                /\ pc' = [pc EXCEPT ![i] = "request"]
    /\ UNCHANGED <<variant, lines, all_rows, updated_results, called, urls,
                   dpc, attempt, lock, last_request_time, now, current_time,
                   results, completed, collected, output>>

\* one request, with the next method, from its start to what the try
\* statement around it makes of its outcome
WRequest(i, h, outcomes) ==
    /\ i \in Tasks
    /\ pc[i] = "request"
    /\ \E o \in outcomes, t \in ClockReads(now, h) :
        LET method == Methods(variant)[attempt[i] + 1]
            next == OnOutcome(variant, OriginalUrl(variant, urls[i]), o, method)
        IN  /\ now' = t
            /\ io' = [io EXCEPT ![i] =
                        Append(@, Request(method, NormalizedUrl(variant, urls[i]), t, o))]
            /\ IF next.act = "continue" /\ attempt[i] + 1 < Len(Methods(variant))
               THEN /\ attempt' = [attempt EXCEPT ![i] = @ + 1]
                    /\ UNCHANGED <<pc, ret>>
               ELSE /\ attempt' = attempt
                    /\ pc' = [pc EXCEPT ![i] = "done"]
                    /\ ret' = [ret EXCEPT ![i] =
                                 IF next.act = "continue"
                                 THEN Return(RetestAfterLoop(OriginalUrl(variant, urls[i])))
                                 ELSE next]
    /\ UNCHANGED <<variant, lines, all_rows, updated_results, called, urls,
                   dpc, lock, last_request_time, current_time, results,
                   completed, collected, output>>

(***************************************************************************)
(* A whole call of check_url at once: what it returns when the DNS check   *)
(* answers d and the requests answer os[1], os[2], ...                     *)
(***************************************************************************)
CheckUrl(v, url, d, os) ==
    LET original_url == OriginalUrl(v, url)
        first == OnOutcome(v, original_url, os[1], Methods(v)[1])
        second == OnOutcome(v, original_url, os[2], Methods(v)[Len(Methods(v))])
    IN  IF Skips(v, url) THEN Return(SkipRecord(v, url))
        ELSE IF HasDnsCheck(v) /\ DnsFails(d)
        THEN Return(DnsRecord(original_url, d))
        ELSE IF first.act # "continue" THEN first
        ELSE IF Len(Methods(v)) > 1 /\ second.act # "continue" THEN second
        ELSE Return(RetestAfterLoop(original_url))

\* the call of task i from its entry to its return, for the dispatcher,
\* which sees of a call only that it runs and what it returns
WCall(i, outcomes) ==
    /\ i \in Tasks
    /\ pc[i] = "start"
    /\ \E d \in (IF HasDnsCheck(variant) THEN DnsOutcomes ELSE {DnsOk}),
          os \in [DOMAIN Methods(variant) -> outcomes] :
        ret' = [ret EXCEPT ![i] = CheckUrl(variant, urls[i], d, os)]
    /\ pc' = [pc EXCEPT ![i] = "done"]
    /\ UNCHANGED <<variant, lines, all_rows, updated_results, called, urls,
                   dpc, attempt, lock, last_request_time, now, current_time,
                   io, results, completed, collected, output>>

(***************************************************************************)
(* The dispatcher: main() of the general and the Kayako checker.           *)
(***************************************************************************)
\* the cadence of the progress line: 50 and 100 completions in the scripts
PROGRESS_EVERY(v) == IF v = "general" THEN PAUSE_EVERY \div 2 ELSE PAUSE_EVERY

\* whether main() sleeps after the completion that made the count `done`
\* Pauses that leaves out the test for work that remains
Pauses_AfterTheLast(v, done, total) ==
    /\ done % PROGRESS_EVERY(v) = 0 \/ done = total
    /\ done % PAUSE_EVERY = 0

Pauses(v, done, total) ==
    /\ done % PROGRESS_EVERY(v) = 0 \/ done = total
    /\ done < total
    /\ done % PAUSE_EVERY = 0

CsvHeader(v) ==
    IF v = "general"
    THEN <<"URL", "Status", "HTTP Code", "Error Message", "Error Type">>
    ELSE <<"URL", "Status", "HTTP Code", "Error Message">>

\* urls = read_urls_from_file(INPUT_FILE), and the submit of every call
MainRead ==
    /\ dpc = "read"
    /\ Submitted(read_urls_from_file(variant, lines))
    /\ dpc' = "collect"
    /\ UNCHANGED <<variant, lines, all_rows, updated_results, lock,
                   last_request_time, now, results, completed, collected,
                   output>>

\* one pass of "for future in as_completed(future_to_url)", the sleep left out
MainCollect ==
    /\ dpc = "collect"
    /\ \E i \in Tasks :
        /\ pc[i] = "done"
        /\ \A k \in DOMAIN collected : collected[k] # i
        /\ collected' = Append(collected, i)
        /\ IF ret[i].act = "raise"
           THEN /\ dpc' = "crashed"
                /\ UNCHANGED <<results, completed>>
           ELSE /\ results' = Append(results, ret[i].rec)
                /\ completed' = completed + 1
                /\ dpc' = IF Pauses(variant, completed + 1, Len(urls))
                          THEN "pause" ELSE "collect"
    /\ UNCHANGED <<variant, lines, all_rows, updated_results, called, urls,
                   pc, attempt, lock, last_request_time, now, current_time,
                   io, ret, output>>

\* the return of time.sleep in the loop
MainResume ==
    /\ dpc = "pause"
    /\ dpc' = "collect"
    /\ UNCHANGED <<variant, lines, all_rows, updated_results, called, urls,
                   pc, attempt, lock, last_request_time, now, current_time,
                   io, ret, results, completed, collected, output>>

\* MainWrite that does not wait for the loop to end
MainWrite_Early ==
    /\ dpc = "collect"
    /\ output' = [written |-> TRUE, header |-> CsvHeader(variant), rows |-> results]
    /\ dpc' = "done"
    /\ UNCHANGED <<variant, lines, all_rows, updated_results, called, urls,
                   pc, attempt, lock, last_request_time, now, current_time,
                   io, ret, results, completed, collected>>

\* after the loop: writer.writerow(header), writer.writerows(results)
MainWrite ==
    /\ dpc = "collect"
    /\ Len(collected) = Len(urls)
    /\ output' = [written |-> TRUE, header |-> CsvHeader(variant), rows |-> results]
    /\ dpc' = "done"
    /\ UNCHANGED <<variant, lines, all_rows, updated_results, called, urls,
                   pc, attempt, lock, last_request_time, now, current_time,
                   io, ret, results, completed, collected>>

Next ==
    \/ MainRead
    \/ MainCollect
    \/ MainResume
    \/ MainWrite
    \/ \E i \in 1..MaxLines : WBegin(i)
    \/ \E i \in 1..MaxLines : WCall(i, RunOutcomes)

Spec == Init /\ [][Next]_vars

(***************************************************************************)
(* The retest script: main() of retest_timeouts.py.  Its INPUT_CSV,        *)
(* url_check_results.csv, is the OUTPUT_FILE of url_checker.py: a row is   *)
(* <<URL, Status, HTTP Code, Error Message>>, and `lines` holds the rows   *)
(* of the file under its header.                                           *)
(***************************************************************************)
CsvUrls == {<<"a">>, <<"b">>}

\* the rows url_checker.py writes for a timeout and for an active instance
CsvRows ==
    {<<u, T(<<"Inactive">>), StrCode(<<"Timeout">>), T(<<"Request", "timeout">>)>> :
        u \in CsvUrls}
    \cup {<<u, T(<<"Active", "Kayako">>), IntCode(200), T(<<>>)>> : u \in CsvUrls}

CsvFiles == SeqsUpTo(CsvRows, MaxLines)

\* read_csv_and_find_timeouts: timeout_urls, the URL of every row whose
\* HTTP Code is 'Timeout', in the order of the file
RECURSIVE TimeoutUrls(_)
TimeoutUrls(rows) ==
    IF rows = <<>> THEN <<>>
    ELSE (IF RCode(Head(rows)) = StrCode(<<"Timeout">>)
          THEN <<RUrl(Head(rows))>> ELSE <<>>) \o TimeoutUrls(Tail(rows))

\* updated_results[key] = value
DictSet(dict, key, value) ==
    [k \in DOMAIN dict \cup {key} |-> IF k = key THEN value ELSE dict[k]]

\* MergeRow that overwrites the status and the message only
MergeRow_KeepCode(row, updated) ==
    IF RUrl(row) \in DOMAIN updated
    THEN <<RUrl(row), RStatus(updated[RUrl(row)]), RCode(row),
           RMessage(updated[RUrl(row)])>>
    ELSE row

\* retest_timeouts.py, lines 173-177: a row after the merge
MergeRow(row, updated) ==
    IF RUrl(row) \in DOMAIN updated
    THEN <<RUrl(row), RStatus(updated[RUrl(row)]), RCode(updated[RUrl(row)]),
           RMessage(updated[RUrl(row)])>>
    ELSE row

\* the start of a run of the retest script on a CSV file
InitRetest ==
    /\ variant = "retest"
    /\ lines \in CsvFiles
    /\ all_rows = <<>>
    /\ updated_results = <<>>
    /\ urls = <<>>
    /\ dpc = "retest_read"
    /\ pc = <<>>
    /\ attempt = <<>>
    /\ lock = 0
    /\ last_request_time = 0
    /\ now = StartTime(variant)
    /\ current_time = <<>>
    /\ called = <<>>
    /\ io = <<>>
    /\ ret = <<>>
    /\ results = <<>>
    /\ completed = 0
    /\ collected = <<>>
    /\ output = [written |-> FALSE, header |-> <<>>, rows |-> <<>>]

\* timeout_urls, all_rows = read_csv_and_find_timeouts(INPUT_CSV); the return
\* when there is nothing to retest; the submit of every call
RetestRead ==
    /\ dpc = "retest_read"
    /\ all_rows' = lines
    /\ IF TimeoutUrls(lines) = <<>>
       THEN /\ dpc' = "returned"
            /\ UNCHANGED <<urls, pc, attempt, current_time, called, io, ret>>
       ELSE /\ Submitted(TimeoutUrls(lines))
            /\ dpc' = "retest_collect"
    /\ UNCHANGED <<variant, lines, updated_results, lock, last_request_time,
                   now, results, completed, collected, output>>

\* one pass of "for future in as_completed(future_to_url)"
RetestCollect ==
    /\ dpc = "retest_collect"
    /\ \E i \in Tasks :
        /\ pc[i] = "done"
        /\ \A k \in DOMAIN collected : collected[k] # i
        /\ collected' = Append(collected, i)
        /\ IF ret[i].act = "raise"
           THEN /\ dpc' = "crashed"
                /\ UNCHANGED <<updated_results, completed>>
           ELSE /\ updated_results' = DictSet(updated_results, RUrl(ret[i].rec), ret[i].rec)
                /\ completed' = completed + 1
                /\ dpc' = dpc
    /\ UNCHANGED <<variant, lines, all_rows, urls, pc, attempt, lock,
                   last_request_time, now, current_time, called, io, ret,
                   results, output>>

\* after the loop: the update of all_rows, writer.writeheader(),
\* writer.writerows(all_rows)
\* RetestWrite that does not wait for the loop to end
RetestWrite_Early ==
    /\ dpc = "retest_collect"
    /\ all_rows' = [k \in DOMAIN all_rows |-> MergeRow(all_rows[k], updated_results)]
    /\ output' = [written |-> TRUE, header |-> CsvHeader(variant), rows |-> all_rows']
    /\ dpc' = "done"
    /\ UNCHANGED <<variant, lines, updated_results, urls, pc, attempt, lock,
                   last_request_time, now, current_time, called, io, ret,
                   results, completed, collected>>

RetestWrite ==
    /\ dpc = "retest_collect"
    /\ Len(collected) = Len(urls)
    /\ all_rows' = [k \in DOMAIN all_rows |-> MergeRow(all_rows[k], updated_results)]
    /\ output' = [written |-> TRUE, header |-> CsvHeader(variant), rows |-> all_rows']
    /\ dpc' = "done"
    /\ UNCHANGED <<variant, lines, updated_results, urls, pc, attempt, lock,
                   last_request_time, now, current_time, called, io, ret,
                   results, completed, collected>>

(***************************************************************************)
(* The runs of all three scripts.  For the specification with fairness:    *)
(* the main thread and every thread of the pool keep being scheduled, and  *)
(* a request ends at the latest when its timeout expires, so a run does    *)
(* not stop while one of its steps is possible.                            *)
(***************************************************************************)
InitRuns == Init \/ InitRetest

NextRuns ==
    \/ MainRead
    \/ MainCollect
    \/ MainResume
    \/ MainWrite
    \/ RetestRead
    \/ RetestCollect
    \/ RetestWrite
    \/ \E i \in 1..MaxLines : WBegin(i)
    \/ \E i \in 1..MaxLines : WCall(i, RunOutcomes)

SpecRuns == InitRuns /\ [][NextRuns]_vars

\* The same runs on the files made of a blank line and a URL, and on the
\* CSV files made of a timeout and another row, with the fairness above.
LiveLines == {<<" ">>, <<"a", " ", "#", "c">>}
LiveRows == {row \in CsvRows : RUrl(row) = <<"a">>}

InitLive ==
    /\ InitRuns
    /\ \A k \in DOMAIN lines :
        IF variant = "retest" THEN lines[k] \in LiveRows ELSE lines[k] \in LiveLines

SpecLive == InitLive /\ [][NextRuns]_vars /\ WF_vars(NextRuns)

\* the one call of a probe, with the clock standing still
NextProbe ==
    \/ WStart(1)
    \/ WLock(1, 0)
    \/ WStamp(1, 0)
    \/ WDns(1, ProbeDnsOutcomes)
    \/ WRequest(1, 0, ProbeOutcomes)

SpecProbe == InitProbe /\ [][NextProbe]_vars

(***************************************************************************)
(* The workers at the rate limiter: the calls of up to MaxLines URLs,      *)
(* already submitted, run by the pool with every timing the horizon        *)
(* allows.                                                                 *)
(***************************************************************************)
GateOutcomes == {Response(200, <<>>)}

InitGate ==
    /\ variant \in {"general", "kayako"}
    /\ lines = <<>>
    /\ all_rows = <<>>
    /\ updated_results = <<>>
    /\ \E n \in 1..MaxLines :
        /\ urls = [i \in 1..n |-> <<"a">>]
        /\ pc = [i \in 1..n |-> "queued"]
        /\ attempt = [i \in 1..n |-> 0]
        /\ current_time = [i \in 1..n |-> 0]
        /\ called = [i \in 1..n |-> 0]
        /\ io = [i \in 1..n |-> <<>>]
        /\ ret = [i \in 1..n |-> NotReturned]
    /\ dpc = "none"
    /\ lock = 0
    /\ last_request_time = 0
    /\ now = StartTime(variant)
    /\ results = <<>>
    /\ completed = 0
    /\ collected = <<>>
    /\ output = [written |-> FALSE, header |-> <<>>, rows |-> <<>>]

NextGate ==
    \/ \E i \in 1..MaxLines : WBegin(i)
    \/ \E i \in 1..MaxLines : WStart(i)
    \/ \E i \in 1..MaxLines : WLock(i, Horizon)
    \/ \E i \in 1..MaxLines : WStamp(i, Horizon)
    \/ \E i \in 1..MaxLines : WDns(i, {DnsOk})
    \/ \E i \in 1..MaxLines : WRequest(i, Horizon, GateOutcomes)

SpecGate == InitGate /\ [][NextGate]_vars

(***************************************************************************)
(* The rate limiter alone: up to MaxLines workers, each in a call of       *)
(* check_url, from their calls of wait_for_rate_limit to its returns, with *)
(* every timing the horizon allows.                                        *)
(***************************************************************************)
InitWait ==
    /\ variant \in {"general", "kayako"}
    /\ lines = <<>>
    /\ all_rows = <<>>
    /\ updated_results = <<>>
    /\ \E n \in 1..MaxLines :
        /\ urls = [i \in 1..n |-> <<"a">>]
        /\ pc = [i \in 1..n |-> "start"]
        /\ attempt = [i \in 1..n |-> 0]
        /\ current_time = [i \in 1..n |-> 0]
        /\ called = [i \in 1..n |-> 0]
        /\ io = [i \in 1..n |-> <<>>]
        /\ ret = [i \in 1..n |-> NotReturned]
    /\ dpc = "none"
    /\ lock = 0
    /\ last_request_time = 0
    /\ now = StartTime(variant)
    /\ results = <<>>
    /\ completed = 0
    /\ collected = <<>>
    /\ output = [written |-> FALSE, header |-> <<>>, rows |-> <<>>]

NextWait ==
    \/ \E i \in 1..MaxLines : WStart(i)
    \/ \E i \in 1..MaxLines : WLock(i, Horizon)
    \/ \E i \in 1..MaxLines : WStamp(i, Horizon)

SpecWait == InitWait /\ [][NextWait]_vars

(***************************************************************************)
(* What the properties below speak about.                                  *)
(***************************************************************************)
\* the events of all tasks, each named by its task and its place
Events == UNION {{<<i, k>> : k \in DOMAIN io[i]} : i \in Tasks}
EventOf(e) == io[e[1]][e[2]]
GrantEvents == {e \in Events : EventOf(e).kind = "grant"}
RequestEvents == {e \in Events : EventOf(e).kind \in {"HEAD", "GET"}}
NetworkEvents == {e \in Events : EventOf(e).kind \in {"dns", "HEAD", "GET"}}
Distance(a, b) == IF a >= b THEN a - b ELSE b - a

(***************************************************************************)
(* C1.  Whatever the number of workers calling wait_for_rate_limit and     *)
(* whatever the timing of their steps, any two values written to           *)
(* last_request_time (one per grant) are at least REQUEST_DELAY apart.     *)
(* Checked under SpecWait.                                                 *)
(***************************************************************************)
C1_GrantsSpaced ==
    \A a \in GrantEvents, b \in GrantEvents :
        a # b => Distance(EventOf(a).at, EventOf(b).at) >= REQUEST_DELAY(variant)

\* three workers have been granted, and two of the grants are exactly
\* REQUEST_DELAY apart: the later of the two has slept
C1_Witness ==
    /\ Cardinality(GrantEvents) >= 3
    /\ \E a \in GrantEvents, b \in GrantEvents :
        EventOf(b).at - EventOf(a).at = REQUEST_DELAY(variant)

(***************************************************************************)
(* C2.  Any two requests, of any two workers, start at least REQUEST_DELAY *)
(* apart.  Checked under SpecGate, which refutes it: the grant is what the *)
(* rate limiter spaces, and a worker starts its request any time after its *)
(* grant.                                                                  *)
(***************************************************************************)
C2_RequestsSpaced ==
    \A a \in RequestEvents, b \in RequestEvents :
        a # b => Distance(EventOf(a).at, EventOf(b).at) >= REQUEST_DELAY(variant)

(***************************************************************************)
(* C3.  Every DNS lookup and every HTTP request of a call is preceded by a *)
(* grant of the rate limiter to that call, in all three scripts.  Checked  *)
(* under SpecProbe, which refutes it for the retest script.                *)
(***************************************************************************)
GatedCall(i) ==
    \A k \in DOMAIN io[i] :
        io[i][k].kind \in {"dns", "HEAD", "GET"}
            => \E j \in 1..(k - 1) : io[i][j].kind = "grant"

C3_EveryVariantGated == \A i \in Tasks : GatedCall(i)

(***************************************************************************)
(* C3, amended.  In the general and the Kayako checker every DNS lookup    *)
(* and every HTTP request of a call is preceded by a grant of the rate     *)
(* limiter to that call; the retest script has no rate limiter, and its    *)
(* HEAD and GET requests are made with no grant at all.                    *)
(***************************************************************************)
C3_GatedExceptRetest ==
    \A i \in Tasks :
        /\ variant \in {"general", "kayako"} => GatedCall(i)
        /\ variant = "retest" =>
              /\ \A k \in DOMAIN io[i] : io[i][k].kind # "grant"
              /\ last_request_time = 0

\* a call of the general checker has been granted, has looked the host up
\* and has made its request
C3_Witness ==
    /\ variant = "general"
    /\ Len(io[1]) = 3
    /\ io[1][1].kind = "grant" /\ io[1][2].kind = "dns" /\ io[1][3].kind = "GET"

(***************************************************************************)
(* C4.  The prober is total: whatever the line and whatever the DNS check  *)
(* and the requests answer (a response with any status, or an exception of *)
(* any class), a call that has not returned can take its next step, and a  *)
(* call that has ended has returned one record with a status; no exception *)
(* leaves it.  Checked under SpecProbe.                                    *)
(***************************************************************************)
C4_ProberTotal ==
    \A i \in Tasks :
        /\ pc[i] = "done" =>
              /\ ret[i].act = "return"
              /\ Len(ret[i].rec) \in {4, 5}
              /\ RStatus(ret[i].rec).lit # <<>>
        /\ pc[i] # "done" => ret[i] = NotReturned /\ ENABLED NextProbe

\* a call has ended in the record of an exception that only the last
\* clause, "except Exception", catches
C4_Witness ==
    /\ pc[1] = "done"
    /\ io[1] # <<>>
    /\ io[1][Len(io[1])].got.exc = "ValueError"
    /\ RStatus(ret[1].rec).lit = <<"Unknown", "Error">>

(***************************************************************************)
(* The words of the claims about lines, said without the operators of the  *)
(* model: a blank line, the trimmed line, the header tokens.               *)
(***************************************************************************)
IsBlankLine(line) == \A k \in DOMAIN line : line[k] \in White

\* the line from its first to its last character that is no white space
Trimmed(line) ==
    IF IsBlankLine(line) THEN <<>>
    ELSE LET ink == {k \in DOMAIN line : line[k] \notin White}
             first == CHOOSE k \in ink : \A m \in ink : k <= m
             last == CHOOSE k \in ink : \A m \in ink : k >= m
         IN  SubSeq(line, first, last)

HeaderTokens == {S_url, S_domain, S_instance_name}

IsHeaderToken(line) == Lower(Trimmed(line)) \in HeaderTokens

\* the lines the script takes for a header: every line "url" in the general
\* checker, a first line that is a header token in the Kayako checker
IsHeaderLine(k) ==
    IF variant = "general"
    THEN Lower(Trimmed(lines[k])) = S_url
    ELSE k = 1 /\ IsHeaderToken(lines[k])

KeptLines == {k \in DOMAIN lines : ~IsBlankLine(lines[k]) /\ ~IsHeaderLine(k)}

\* the j-th smallest member of a set of numbers
NthOf(S, j) == CHOOSE x \in S : Cardinality({y \in S : y < x}) = j - 1

C6_RowPerLine == dpc = "done" => Len(output.rows) = Len(lines)

(***************************************************************************)
(* C6, amended.  The output has one row per line that is neither blank nor *)
(* a header line: read_urls_from_file drops the blank lines and the header *)
(* lines, which get no row.  A Skipped row is written only by the Kayako   *)
(* checker, for a header token that is not on the first line.              *)
(***************************************************************************)
SkippedRows == {k \in DOMAIN output.rows : RStatus(output.rows[k]).lit = <<"Skipped">>}

C6_RowPerKeptLine ==
    dpc = "done" =>
        /\ Len(output.rows) =
              Len(lines) - Cardinality({k \in DOMAIN lines :
                                          IsBlankLine(lines[k]) \/ IsHeaderLine(k)})
        /\ Cardinality(SkippedRows) =
              IF variant = "general" THEN 0
              ELSE Cardinality({k \in DOMAIN lines : k > 1 /\ IsHeaderToken(lines[k])})

\* a file of a header line, a blank line and one URL has been written as
\* one row
C6_Witness ==
    /\ dpc = "done"
    /\ Len(lines) = 3
    /\ \E k \in DOMAIN lines : IsBlankLine(lines[k])
    /\ IsHeaderLine(1)
    /\ Len(output.rows) = 1

(***************************************************************************)
(* C7.  A line that, trimmed and with its #-comment removed, is empty or   *)
(* is a header token (url, domain, instance name, in any case) is answered *)
(* by a Skipped record with the code "N/A", and its call takes no grant of *)
(* the rate limiter and makes no DNS lookup and no request.  Checked under *)
(* SpecProbe, which refutes it.                                            *)
(***************************************************************************)
\* the line trimmed, its comment removed
ClaimedText(line) == Trimmed(BeforeFirst(Trimmed(line), "#"))

ClaimedSkip(line) ==
    ClaimedText(line) = <<>> \/ Lower(ClaimedText(line)) \in HeaderTokens

C7_SkippedWithoutEffect ==
    \A i \in Tasks :
        (variant \in {"general", "kayako"} /\ ClaimedSkip(urls[i])) =>
            /\ io[i] = <<>>
            /\ last_request_time = 0
            /\ pc[i] = "done" =>
                  /\ RStatus(ret[i].rec).lit = <<"Skipped">>
                  /\ RCode(ret[i].rec) = StrCode(<<"N/A">>)

(***************************************************************************)
(* C8.  In every script, the URL requested for a line that is not skipped  *)
(* is the trimmed line with its #-comment removed, and with https:// put   *)
(* before it exactly when it starts with neither http:// nor https://.     *)
(* Checked under SpecProbe, which refutes it.                              *)
(***************************************************************************)
WithScheme(text) == IF HasScheme(text) THEN text ELSE S_https \o text

C8_RequestedUrlEveryVariant ==
    \A e \in RequestEvents :
        ~ClaimedSkip(urls[e[1]]) =>
            EventOf(e).url = WithScheme(ClaimedText(urls[e[1]]))

(***************************************************************************)
(* C8, amended.  In the general checker the URL requested is the trimmed   *)
(* line with its #-comment removed, and with https:// put before it        *)
(* exactly when it starts with neither http:// nor https://.  The Kayako   *)
(* checker and the retest script do not remove the comment: they request   *)
(* the trimmed line, with https:// put before it under the same condition. *)
(***************************************************************************)
C8_RequestedUrlByVariant ==
    \A e \in RequestEvents :
        EventOf(e).url =
            IF variant = "general"
            THEN WithScheme(ClaimedText(urls[e[1]]))
            ELSE WithScheme(Trimmed(urls[e[1]]))

\* the general checker has requested https://a for the line "a # c"
C8_Witness ==
    /\ variant = "general"
    /\ urls[1] = <<"a", " ", "#", " ", "c">>
    /\ \E e \in RequestEvents : EventOf(e).url = S_https \o <<"a">>

(***************************************************************************)
(* C9.  In the general checker, a response whose body contains the "Oops"  *)
(* marker, in any case of its letters, is recorded as Error Page whatever  *)
(* its status code.  Checked under SpecProbe.                              *)
(***************************************************************************)
\* the marker is in the body, the case of the letters left aside
HasMarker(body, marker) ==
    \E off \in 0..(Len(body) - Len(marker)) :
        \A k \in DOMAIN marker : LowerWord(body[off + k]) = LowerWord(marker[k])

\* the call of task i has ended, and its last request was answered by a
\* response whose body contains the marker
AnsweredWithMarker(i, marker) ==
    /\ pc[i] = "done"
    /\ io[i] # <<>>
    /\ io[i][Len(io[i])].got.kind = "response"
    /\ HasMarker(io[i][Len(io[i])].got.body, marker)

LastStatus(i) == io[i][Len(io[i])].got.status

C9_OopsIsErrorPage ==
    \A i \in Tasks :
        (variant = "general" /\ AnsweredWithMarker(i, ERROR_MESSAGE_OOPS)) =>
            /\ ret[i].act = "return"
            /\ RStatus(ret[i].rec) = T(<<"Error", "Page">>)
            /\ RCode(ret[i].rec) = IntCode(LastStatus(i))

\* a response 500 whose body has the marker in capitals is an Error Page
C9_Witness ==
    /\ variant = "general"
    /\ AnsweredWithMarker(1, ERROR_MESSAGE_OOPS)
    /\ LastStatus(1) = 500
    /\ io[1][Len(io[1])].got.body # ERROR_MESSAGE_OOPS
    /\ RStatus(ret[1].rec) = T(<<"Error", "Page">>)

(***************************************************************************)
(* C10.  In the Kayako checker, a response whose body contains the Kayako  *)
(* marker, in any case of its letters, is recorded as Instance unavailable *)
(* with the marker as its message, whatever its status code.  Checked      *)
(* under SpecProbe, which refutes it.                                      *)
(***************************************************************************)
C10_MarkerAnyStatus ==
    \A i \in Tasks :
        (variant = "kayako" /\ AnsweredWithMarker(i, KAYAKO_ERROR_MESSAGE)) =>
            /\ RStatus(ret[i].rec) = T(<<"Instance", "unavailable">>)
            /\ RMessage(ret[i].rec) = T(KAYAKO_ERROR_MESSAGE)

(***************************************************************************)
(* C10, amended.  In the Kayako checker, a response whose body contains    *)
(* the Kayako marker, in any case of its letters, is recorded as Instance  *)
(* unavailable with the marker as its message when its status code is from *)
(* 200 to 399; with any other status code the body is not looked at, and   *)
(* the record is Inactive with the message "HTTP <code>".                  *)
(***************************************************************************)
C10_MarkerOnlyFrom200To399 ==
    \A i \in Tasks :
        (variant = "kayako" /\ AnsweredWithMarker(i, KAYAKO_ERROR_MESSAGE)) =>
            /\ ret[i].act = "return"
            /\ RCode(ret[i].rec) = IntCode(LastStatus(i))
            /\ IF 200 <= LastStatus(i) /\ LastStatus(i) <= 399
               THEN /\ RStatus(ret[i].rec) = T(<<"Instance", "unavailable">>)
                    /\ RMessage(ret[i].rec) = T(KAYAKO_ERROR_MESSAGE)
               ELSE /\ RStatus(ret[i].rec) = T(<<"Inactive">>)
                    /\ RMessage(ret[i].rec) = TN(<<"HTTP">>, LastStatus(i))

\* a response 400 with the marker in its body is Inactive
C10_Witness ==
    /\ variant = "kayako"
    /\ AnsweredWithMarker(1, KAYAKO_ERROR_MESSAGE)
    /\ LastStatus(1) = 400
    /\ RStatus(ret[1].rec) = T(<<"Inactive">>)

(***************************************************************************)
(* C11.  In the general checker, a DNS check that fails with a name        *)
(* resolution error (socket.gaierror) ends the call in a DNS Error record  *)
(* whose HTTP code is no number, and no request is made; after a DNS check *)
(* that raises any other error the request is made all the same, and the   *)
(* record is what the outcome of the request makes it.  Checked under      *)
(* SpecProbe.                                                              *)
(***************************************************************************)
C11_DnsPrecheck ==
    \A i \in Tasks : \A k \in DOMAIN io[i] :
        (variant = "general" /\ io[i][k].kind = "dns") =>
            /\ io[i][k].got.kind = "False" =>
                  /\ k = Len(io[i])
                  /\ pc[i] = "done"
                  /\ ret[i].act = "return"
                  /\ RStatus(ret[i].rec) = T(<<"DNS", "Error">>)
                  /\ ~RCode(ret[i].rec).isint
            /\ io[i][k].got.kind = "None" =>
                  /\ pc[i] # "done" => pc[i] = "request"
                  /\ pc[i] = "done" =>
                        /\ Len(io[i]) = k + 1
                        /\ io[i][k + 1].kind = "GET"
                        /\ ret[i] = OnOutcome("general", OriginalUrl("general", urls[i]),
                                              io[i][k + 1].got, "GET")

\* after a DNS check that raised another error, the request was made and
\* answered 200, and the record is Working
C11_Witness ==
    /\ variant = "general"
    /\ pc[1] = "done"
    /\ Len(io[1]) = 3
    /\ io[1][2].kind = "dns" /\ io[1][2].got.kind = "None"
    /\ io[1][3].kind = "GET" /\ io[1][3].got.kind = "response"
    /\ RStatus(ret[1].rec) = T(<<"Working">>)

(***************************************************************************)
(* C12.  At every moment of a run of any of the three scripts, the calls   *)
(* of the prober that have started and have not returned are at most       *)
(* MAX_WORKERS, however many URLs were submitted.  Checked under SpecRuns. *)
(***************************************************************************)
C12_PoolBounded == Cardinality(Running) <= MAX_WORKERS

\* every thread of the pool is busy while a submitted call waits for one
C12_Witness ==
    /\ Cardinality(Running) = MAX_WORKERS
    /\ \E i \in Tasks : pc[i] = "queued"

(***************************************************************************)
(* C13.  Every run, of any of the three scripts and on any input, comes to *)
(* its end with the output written, after every submitted call has been    *)
(* collected.  Checked under SpecLive, which refutes it for the retest     *)
(* script.                                                                 *)
(***************************************************************************)
Written ==
    /\ dpc = "done"
    /\ output.written
    /\ Len(collected) = Len(urls)
    /\ \A i \in Tasks : pc[i] = "done"

C13_EveryRunWrites == <>Written

(***************************************************************************)
(* C13, amended.  Every run of the general and of the Kayako checker, on   *)
(* any input, comes to its end with the output written, after every        *)
(* submitted call has been collected; so does every run of the retest      *)
(* script on a CSV with a row whose HTTP Code is Timeout.  On a CSV with   *)
(* no such row the retest script submits nothing and returns without       *)
(* writing any output.                                                     *)
(***************************************************************************)
NothingToRetest ==
    /\ variant = "retest"
    /\ \A k \in DOMAIN lines : RCode(lines[k]) # StrCode(<<"Timeout">>)

ReturnedUnwritten ==
    /\ dpc = "returned"
    /\ ~output.written
    /\ urls = <<>>

C13_RunEnds ==
    /\ NothingToRetest => <>ReturnedUnwritten
    /\ ~NothingToRetest => <>Written

\* a run of three calls, one of them on hold until a thread was free, has
\* written its output
C13_Witness ==
    /\ Written
    /\ Len(urls) > MAX_WORKERS

(***************************************************************************)
(* C14.  The CSV the retest script writes has the header and the rows of   *)
(* the CSV it read, in the same order.  A row whose URL was retested (the  *)
(* URL of a row whose HTTP Code was Timeout) has the Status, the HTTP Code *)
(* and the Error Message of the retest result for that URL, the one        *)
(* collected last when the URL was retested more than once; every other    *)
(* row is the row that was read.  Checked under SpecRuns.                  *)
(***************************************************************************)
RetestedUrls ==
    {RUrl(lines[k]) : k \in {j \in DOMAIN lines : RCode(lines[j]) = StrCode(<<"Timeout">>)}}

\* the place in `collected` of the call of task i
CollectedAt(i) == CHOOSE k \in DOMAIN collected : collected[k] = i

\* the call for the URL u that was collected last
LastCallFor(u) ==
    CHOOSE i \in Tasks :
        /\ urls[i] = u
        /\ \A j \in Tasks : urls[j] = u => CollectedAt(j) <= CollectedAt(i)

C14_MergeKeepsFrame ==
    (variant = "retest" /\ dpc = "done") =>
        /\ output.header = <<"URL", "Status", "HTTP Code", "Error Message">>
        /\ Len(output.rows) = Len(lines)
        /\ \A k \in DOMAIN lines :
            /\ RUrl(output.rows[k]) = RUrl(lines[k])
            /\ IF RUrl(lines[k]) \in RetestedUrls
               THEN LET result == ret[LastCallFor(RUrl(lines[k]))].rec
                    IN  /\ RStatus(output.rows[k]) = RStatus(result)
                        /\ RCode(output.rows[k]) = RCode(result)
                        /\ RMessage(output.rows[k]) = RMessage(result)
               ELSE output.rows[k] = lines[k]

\* the URL "a" has timed out and answered 200 at the retest: its two rows
\* are Active, 200, and the row of "b" is as it was read
C14_Witness ==
    /\ variant = "retest"
    /\ dpc = "done"
    /\ Len(lines) = 3
    /\ RUrl(lines[1]) = <<"a">> /\ RCode(lines[1]) = StrCode(<<"Timeout">>)
    /\ RUrl(lines[2]) = <<"a">> /\ RCode(lines[2]) = IntCode(200)
    /\ RUrl(lines[3]) = <<"b">> /\ RCode(lines[3]) = IntCode(200)
    /\ RStatus(output.rows[1]) = T(<<"Active">>) /\ RCode(output.rows[1]) = IntCode(200)
    /\ RStatus(output.rows[2]) = T(<<"Active">>)
    /\ output.rows[3] = lines[3]

(***************************************************************************)
(* C15.  From its call of wait_for_rate_limit to its return, a worker      *)
(* waits REQUEST_DELAY at most, however many workers call at once.         *)
(* Checked under SpecWait, which refutes it: the workers queue.            *)
(***************************************************************************)
\* the wait of the grant e: from the call to the stamp
WaitOf(e) == EventOf(e).at - called[e[1]]

C15_WaitBounded == \A e \in GrantEvents : WaitOf(e) <= REQUEST_DELAY(variant)

(***************************************************************************)
(* C15, amended.  The sleep of a worker inside wait_for_rate_limit is      *)
(* REQUEST_DELAY at most, but the workers sleep one after the other, each  *)
(* holding the lock: from its call to its return a worker waits at most    *)
(* REQUEST_DELAY for each grant made in that time, its own included, on    *)
(* top of the time that passes while no worker sleeps (Horizon at most in  *)
(* the model).  With N workers calling at once the wait is up to N times   *)
(* REQUEST_DELAY.                                                          *)
(***************************************************************************)
\* the grants stamped from the call of the worker of grant e to e
GrantsDuring(e) ==
    {g \in GrantEvents :
        called[e[1]] <= EventOf(g).at /\ EventOf(g).at <= EventOf(e).at}

C15_WaitBoundedByQueue ==
    /\ \A i \in Tasks :
        pc[i] = "locked" =>
            LET sleep_time == WakeTime(variant, current_time[i], last_request_time)
                                - current_time[i]
            IN  0 <= sleep_time /\ sleep_time <= REQUEST_DELAY(variant)
    /\ \A e \in GrantEvents :
        WaitOf(e) <= Cardinality(GrantsDuring(e)) * REQUEST_DELAY(variant) + Horizon

\* three workers called at the same time, and the last of them waited
\* twice REQUEST_DELAY
C15_Witness ==
    /\ Cardinality(GrantEvents) = 3
    /\ \A i \in Tasks : called[i] = StartTime(variant)
    /\ \E e \in GrantEvents : WaitOf(e) = 2 * REQUEST_DELAY(variant)

(***************************************************************************)
(* C16.  In every script, an exception raised by the request is recorded   *)
(* by its kind, in this precedence: a timeout as Timeout; a TLS failure as *)
(* SSL Error; a connection failure as DNS Error when its message tells of  *)
(* name resolution, as Connection Refused when it tells of a refusal, as   *)
(* Connection Error otherwise; too many redirects as Redirect Error; any   *)
(* other exception of the request layer as Request Error; anything else as *)
(* Unknown Error.  Checked under SpecProbe, which refutes it for the       *)
(* Kayako checker and the retest script.                                   *)
(***************************************************************************)
IsA(o, class) == class \in Bases(o.exc)

\* the words are in the description of the exception, as they are written
Says(o, words) ==
    \E off \in 0..(Len(o.desc) - Len(words)) :
        \A k \in DOMAIN words : o.desc[off + k] = words[k]

\* the same, the case of the letters left aside
SaysAnyCase(o, words) == HasMarker(o.desc, words)

TellsOfNames(o) ==
    SaysAnyCase(o, W_name_not_known) \/ SaysAnyCase(o, W_nodename)

\* the kind of an exception that is no timeout and no TLS failure
KindBelowTls(o, connection) ==
    IF IsA(o, "ConnectionError") THEN connection
    ELSE IF IsA(o, "TooManyRedirects") THEN <<"Redirect", "Error">>
    ELSE IF IsA(o, "RequestException") THEN <<"Request", "Error">>
    ELSE <<"Unknown", "Error">>

ClaimedKind(o) ==
    IF IsA(o, "Timeout") THEN <<"Timeout">>
    ELSE IF IsA(o, "SSLError") THEN <<"SSL", "Error">>
    ELSE KindBelowTls(o,
            IF TellsOfNames(o) THEN <<"DNS", "Error">>
            ELSE IF SaysAnyCase(o, <<"refused">>) THEN <<"Connection", "Refused">>
            ELSE <<"Connection", "Error">>)

\* the field the kind is recorded in: the status in the general checker,
\* the HTTP code in the other two scripts, whose status is Inactive
KindRecorded(i) ==
    IF variant = "general" THEN RStatus(ret[i].rec).lit ELSE RCode(ret[i].rec).s

\* the call of task i has ended on an exception of its last request
EndedOnException(i) ==
    /\ pc[i] = "done"
    /\ io[i] # <<>>
    /\ io[i][Len(io[i])].kind \in {"HEAD", "GET"}
    /\ io[i][Len(io[i])].got.kind = "exception"

LastOutcome(i) == io[i][Len(io[i])].got

C16_PrecedenceEveryVariant ==
    \A i \in Tasks :
        EndedOnException(i) =>
            /\ ret[i].act = "return"
            /\ KindRecorded(i) = ClaimedKind(LastOutcome(i))

(***************************************************************************)
(* C16, amended.  The general checker records an exception raised by the   *)
(* request in the precedence above.  The Kayako checker and the retest     *)
(* script have no clause for a TLS failure ahead of the clause for a       *)
(* connection failure, and go by the message of every connection failure,  *)
(* a TLS failure included: SSL Error when it has "SSL" or, in any case of  *)
(* the letters, "certificate"; else DNS Error when it has "Name or service *)
(* not known" or "nodename nor servname" written so; else, in the retest   *)
(* script only, Connection Refused when it has "refused" in any case; else *)
(* Connection Error.  A timeout is Timeout and the exceptions below a      *)
(* connection failure are recorded as claimed in all three scripts.        *)
(***************************************************************************)
KindByMessage(o) ==
    IF Says(o, <<"SSL">>) \/ SaysAnyCase(o, <<"certificate">>) THEN <<"SSL", "Error">>
    ELSE IF Says(o, W_name_not_known) \/ Says(o, W_nodename) THEN <<"DNS", "Error">>
    ELSE IF variant = "retest" /\ SaysAnyCase(o, <<"refused">>)
    THEN <<"Connection", "Refused">>
    ELSE <<"Connection", "Error">>

C16_PrecedenceByVariant ==
    \A i \in Tasks :
        EndedOnException(i) =>
            /\ ret[i].act = "return"
            /\ KindRecorded(i) =
                  IF variant = "general" THEN ClaimedKind(LastOutcome(i))
                  ELSE IF IsA(LastOutcome(i), "Timeout") THEN <<"Timeout">>
                  ELSE KindBelowTls(LastOutcome(i), KindByMessage(LastOutcome(i)))

\* the Kayako checker has recorded a TLS failure whose message tells
\* nothing as a Connection Error
C16_Witness ==
    /\ variant = "kayako"
    /\ EndedOnException(1)
    /\ LastOutcome(1).exc = "SSLError"
    /\ LastOutcome(1).desc = <<>>
    /\ RCode(ret[1].rec) = StrCode(<<"Connection", "Error">>)

(***************************************************************************)
(* C17.  In the general checker, a response whose body has no error-page   *)
(* marker (neither the "Oops" marker nor the "site can't be reached"       *)
(* marker) is recorded by its status code alone: Working from 200 to 399,  *)
(* HTTP Error <code> from 400 on, Unknown Status below 200, and exactly    *)
(* one of the three for every code.  Checked under SpecProbe.              *)
(***************************************************************************)
\* the call of task i has ended on a response whose body has no marker
AnsweredWithoutMarker(i) ==
    /\ pc[i] = "done"
    /\ io[i] # <<>>
    /\ io[i][Len(io[i])].got.kind = "response"
    /\ ~HasMarker(io[i][Len(io[i])].got.body, ERROR_MESSAGE_OOPS)
    /\ ~HasMarker(io[i][Len(io[i])].got.body, SITE_UNREACHABLE)

IsWorking(rec) == RStatus(rec) = T(<<"Working">>)

IsHttpError(rec, code) ==
    /\ RStatus(rec) = TN(<<"HTTP">>, code)
    /\ RMessage(rec) = TN(<<"HTTP", "Error">>, code)

IsUnknownStatus(rec) == RStatus(rec) = T(<<"Unknown", "Status">>)

C17_ByStatusCode ==
    \A i \in Tasks :
        (variant = "general" /\ AnsweredWithoutMarker(i)) =>
            /\ ret[i].act = "return"
            /\ RCode(ret[i].rec) = IntCode(LastStatus(i))
            /\ IsWorking(ret[i].rec) <=> (200 <= LastStatus(i) /\ LastStatus(i) <= 399)
            /\ IsHttpError(ret[i].rec, LastStatus(i)) <=> (LastStatus(i) >= 400)
            /\ IsUnknownStatus(ret[i].rec) <=> (LastStatus(i) < 200)
            /\ Cardinality({k \in 1..3 :
                    \/ k = 1 /\ IsWorking(ret[i].rec)
                    \/ k = 2 /\ IsHttpError(ret[i].rec, LastStatus(i))
                    \/ k = 3 /\ IsUnknownStatus(ret[i].rec)}) = 1

\* a response of status 199 without a marker has been recorded as Unknown
\* Status
C17_Witness ==
    /\ variant = "general"
    /\ AnsweredWithoutMarker(1)
    /\ LastStatus(1) = 199
    /\ IsUnknownStatus(ret[1].rec)

(***************************************************************************)
(* C18.  In every script, the retest script included, the main thread      *)
(* goes into its pause exactly when the count of completed calls reaches a *)
(* multiple of PAUSE_EVERY while calls remain: after every such            *)
(* completion, and never after the last completion or at another count.    *)
(* Checked under SpecRuns, which refutes it for the retest script.         *)
(***************************************************************************)
\* the count of completed calls has reached a multiple of PAUSE_EVERY and
\* calls remain
AtBatchBoundary == completed' % PAUSE_EVERY = 0 /\ completed' < Len(urls)

EntersPause == dpc # "pause" /\ dpc' = "pause"

C18_PausesEveryVariant ==
    [][/\ completed' = completed + 1 => (EntersPause <=> AtBatchBoundary)
       /\ EntersPause => completed' = completed + 1]_vars

(***************************************************************************)
(* C18, amended.  The general checker and the Kayako checker go into the   *)
(* pause exactly when the count of completed calls reaches a multiple of   *)
(* PAUSE_EVERY while calls remain.  The retest script never pauses.        *)
(***************************************************************************)
C18_PausesButRetest ==
    [][/\ completed' = completed + 1 =>
            (EntersPause <=> (variant # "retest" /\ AtBatchBoundary))
       /\ EntersPause => completed' = completed + 1]_vars

\* the main thread is in its pause after the completion of PAUSE_EVERY
\* calls, with calls that remain
C18_Witness ==
    /\ variant \in {"general", "kayako"}
    /\ dpc = "pause"
    /\ completed = PAUSE_EVERY
    /\ completed < Len(urls)

(***************************************************************************)
(* C19.  While the main thread of the general checker or of the Kayako     *)
(* checker is in its pause, no worker starts a call of check_url and no    *)
(* record is appended to the results.  Checked under SpecRuns, which       *)
(* refutes the first half: every call was submitted before the loop, and   *)
(* the workers of the pool go on taking them while the main thread sleeps. *)
(***************************************************************************)
\* a worker takes a call from the queue of the pool
StartsCall == \E i \in Tasks : pc[i] = "queued" /\ pc'[i] # "queued"

C19_PauseStopsWork ==
    [][dpc = "pause" => /\ ~StartsCall
                        /\ results' = results
                        /\ completed' = completed]_vars

(***************************************************************************)
(* C20.  In the retest script a call of check_url_with_retry makes at most *)
(* two requests, a HEAD and then a GET; it makes the GET if and only if    *)
(* the HEAD timed out, any other outcome of the HEAD, response or          *)
(* exception, giving the record at once; and the record is Timeout only    *)
(* when the HEAD and the GET both timed out.  Checked under SpecProbe.     *)
(***************************************************************************)
IsRequest(e) == e.kind \in {"HEAD", "GET"}

RequestsOf(i) == SelectSeq(io[i], IsRequest)

TimedOut(e) == e.got.kind = "exception" /\ IsA(e.got, "Timeout")

RecordIsTimeout(i) ==
    ret[i].act = "return" /\ RCode(ret[i].rec) = StrCode(<<"Timeout">>)

C20_WitnessFallback ==
    /\ variant = "retest"
    /\ pc[1] = "done"
    /\ Len(RequestsOf(1)) = 2
    /\ RequestsOf(1)[2].got.kind = "response"
    /\ RCode(ret[1].rec) = IntCode(RequestsOf(1)[2].got.status)

(***************************************************************************)
(* C21.  In every record of every script the HTTP code is the status code  *)
(* of a response or one of the strings Timeout, SSL Error, Connection      *)
(* Error, DNS Error, N/A, and nothing else.  Checked under SpecProbe,      *)
(* which refutes it: the code is also Redirect Error, Request Error,       *)
(* Unknown Error and, in the retest script, Connection Refused.            *)
(***************************************************************************)
\* the call of task i has returned a record
Recorded(i) == pc[i] = "done" /\ ret[i].act = "return"

ClaimedSentinels ==
    { <<"Timeout">>, <<"SSL", "Error">>, <<"Connection", "Error">>,
      <<"DNS", "Error">>, <<"N/A">> }

\* the HTTP code of the record is the status code of the response that
\* answered the last request of the call
CodeOfResponse(i) ==
    /\ RCode(ret[i].rec).isint
    /\ io[i] # <<>>
    /\ io[i][Len(io[i])].got.kind = "response"
    /\ RCode(ret[i].rec).n = io[i][Len(io[i])].got.status

CodeAmong(i, sentinels) ==
    ~RCode(ret[i].rec).isint /\ RCode(ret[i].rec).s \in sentinels

C21_CodeIsClaimedSentinel ==
    \A i \in Tasks :
        Recorded(i) => CodeOfResponse(i) \/ CodeAmong(i, ClaimedSentinels)

(***************************************************************************)
(* C21, amended.  The HTTP code of a record is the status code of a        *)
(* response or one of the strings Timeout, SSL Error, Connection Error,    *)
(* DNS Error, N/A, Redirect Error, Request Error, Unknown Error and, in    *)
(* the retest script only, Connection Refused.                             *)
(***************************************************************************)
SentinelsOf(v) ==
    ClaimedSentinels
        \cup { <<"Redirect", "Error">>, <<"Request", "Error">>, <<"Unknown", "Error">> }
        \cup (IF v = "retest" THEN { <<"Connection", "Refused">> } ELSE {})

C21_CodeIsSentinel ==
    \A i \in Tasks :
        Recorded(i) => CodeOfResponse(i) \/ CodeAmong(i, SentinelsOf(variant))

\* the retest script has recorded a refused connection with the HTTP code
\* Connection Refused
C21_Witness ==
    /\ variant = "retest"
    /\ Recorded(1)
    /\ EndedOnException(1)
    /\ RCode(ret[1].rec) = StrCode(<<"Connection", "Refused">>)

(***************************************************************************)
(* C22.  An error message made from the description of an exception is at  *)
(* most 150 characters long, on every path of check_url that makes one     *)
(* (the failed DNS check, the SSL error, the connection error, the request *)
(* error, the unknown error) and for a description of any length.  Checked *)
(* under SpecProbe, which refutes it for the failed DNS check of the       *)
(* general checker: check_dns puts the whole description in its message.   *)
(***************************************************************************)
\* the characters of the literal text an error message begins with, the
\* blank after it included
PrefixChars(lit) ==
    CASE lit = <<>> -> 0
      [] lit = <<"DNS", "Error:">> -> 11
      [] lit = <<"DNS", "Check", "Error:">> -> 17
      [] lit = <<"SSL", "Certificate", "error:">> -> 23
      [] lit = <<"Connection", "failed:">> -> 19
      [] lit = <<"SSL", "error:">> -> 11
      [] OTHER -> 0

\* the message is made from the description of an exception
FromException(text) == text.exc > 0

MessageChars(text) == PrefixChars(text.lit) + text.exc

C22_MessageBounded ==
    \A i \in Tasks :
        (Recorded(i) /\ FromException(RMessage(ret[i].rec))) =>
            MessageChars(RMessage(ret[i].rec)) <= 150

(***************************************************************************)
(* C23.  When the retest script has merged, every row that was read with   *)
(* the HTTP Code Timeout carries the result of a call of                   *)
(* check_url_with_retry for its own URL that has returned and has been     *)
(* collected, whatever the order the calls ended in; rows that share a     *)
(* retested URL carry the same result.  Checked under SpecRuns.            *)
(***************************************************************************)
WasTimeout(k) == RCode(lines[k]) = StrCode(<<"Timeout">>)

\* the call of task i has returned a result for the URL u, and the main
\* thread has collected it
CompletedFor(i, u) ==
    /\ urls[i] = u
    /\ pc[i] = "done"
    /\ ret[i].act = "return"
    /\ RUrl(ret[i].rec) = u
    /\ \E c \in DOMAIN collected : collected[c] = i

\* the row carries the status, the HTTP code and the message of the result
Carries(row, result) ==
    /\ RStatus(row) = RStatus(result)
    /\ RCode(row) = RCode(result)
    /\ RMessage(row) = RMessage(result)

C23_TimeoutRowsRetested ==
    (variant = "retest" /\ dpc = "done") =>
        /\ Len(all_rows) = Len(lines)
        /\ \A k \in DOMAIN lines :
            WasTimeout(k) =>
                /\ RUrl(all_rows[k]) = RUrl(lines[k])
                /\ \E i \in Tasks :
                    /\ CompletedFor(i, RUrl(lines[k]))
                    /\ Carries(all_rows[k], ret[i].rec)
        /\ \A k1, k2 \in DOMAIN lines :
            (WasTimeout(k1) /\ RUrl(lines[k1]) = RUrl(lines[k2])) =>
                all_rows[k1] = all_rows[k2]

\* the URL "a" was read in two Timeout rows; of its two calls the second
\* timed out again and was collected first, the first was answered and was
\* collected last, and both rows carry the result of the first
C23_Witness ==
    /\ variant = "retest"
    /\ dpc = "done"
    /\ Len(lines) >= 2
    /\ WasTimeout(1) /\ WasTimeout(2)
    /\ RUrl(lines[1]) = <<"a">> /\ RUrl(lines[2]) = <<"a">>
    /\ RCode(ret[1].rec) = IntCode(200)
    /\ RCode(ret[2].rec) = StrCode(<<"Timeout">>)
    /\ collected[1] = 2
    /\ collected[2] = 1
    /\ RCode(all_rows[1]) = IntCode(200)
    /\ all_rows[2] = all_rows[1]

(***************************************************************************)
(* The summary of the general checker: check_urls_status.py, lines         *)
(* 220-227, over the list of records rs.  A record r of the script is      *)
(* rs[k][1], ..., rs[k][5] here, for r[0], ..., r[4] there.                *)
(***************************************************************************)
working_count(rs) == Cardinality({k \in DOMAIN rs : rs[k][2] = T(<<"Working">>)})

error_page_count(rs) ==
    Cardinality({k \in DOMAIN rs : rs[k][2] = T(<<"Error", "Page">>)})

\* dns_error_count that looks for 'Error'
dns_error_count_Error(rs) ==
    Cardinality({k \in DOMAIN rs :
        Within(<<"Error">>, rs[k][2].lit) \/ Within(<<"Error">>, rs[k][5].lit)})

dns_error_count(rs) ==
    Cardinality({k \in DOMAIN rs :
        Within(<<"DNS">>, rs[k][2].lit) \/ Within(<<"DNS">>, rs[k][5].lit)})

timeout_count(rs) == Cardinality({k \in DOMAIN rs : rs[k][2] = T(<<"Timeout">>)})

connection_error_count(rs) ==
    Cardinality({k \in DOMAIN rs :
        Within(<<"Connection">>, rs[k][2].lit) \/ Within(<<"Connection">>, rs[k][5].lit)})

http_error_count(rs) ==
    Cardinality({k \in DOMAIN rs :
        Within(<<"HTTP">>, rs[k][2].lit) /\ rs[k][2] # T(<<"Working">>)})

skipped_count(rs) == Cardinality({k \in DOMAIN rs : rs[k][2] = T(<<"Skipped">>)})

other_count(rs, total_urls) ==
    total_urls - working_count(rs) - error_page_count(rs) - dns_error_count(rs)
        - timeout_count(rs) - connection_error_count(rs) - http_error_count(rs)
        - skipped_count(rs)

(***************************************************************************)
(* C24.  In the summary of the general checker every record check_url can  *)
(* return is counted in at most one of the buckets Working, Error Page,    *)
(* DNS, Timeout, Connection, HTTP, Skipped: the counts add up to at most   *)
(* the number of records, and the count of the others is never negative.   *)
(* Checked under SpecProbe, on the summary of the run of one line, for     *)
(* every record a call can return.                                         *)
(***************************************************************************)
BucketCounts(rs) ==
    working_count(rs) + error_page_count(rs) + dns_error_count(rs)
        + timeout_count(rs) + connection_error_count(rs) + http_error_count(rs)
        + skipped_count(rs)

C24_OneBucketAtMost ==
    \A i \in Tasks :
        (variant = "general" /\ Recorded(i)) =>
            /\ BucketCounts(<<ret[i].rec>>) <= 1
            /\ other_count(<<ret[i].rec>>, 1) >= 0
            /\ other_count(<<ret[i].rec>>, 1) = 1 - BucketCounts(<<ret[i].rec>>)

\* a refused connection, with 'Connection' in its status and in its error
\* type, is counted once, as a connection error
C24_Witness ==
    /\ variant = "general"
    /\ Recorded(1)
    /\ RStatus(ret[1].rec) = T(<<"Connection", "Refused">>)
    /\ ret[1].rec[5] = T(<<"Connection", "Error">>)
    /\ connection_error_count(<<ret[1].rec>>) = 1
    /\ BucketCounts(<<ret[1].rec>>) = 1
    /\ other_count(<<ret[1].rec>>, 1) = 0

\* an SSL error is in no bucket, and is counted with the others
C24_WitnessOther ==
    /\ variant = "general"
    /\ Recorded(1)
    /\ RStatus(ret[1].rec) = T(<<"SSL", "Error">>)
    /\ BucketCounts(<<ret[1].rec>>) = 0
    /\ other_count(<<ret[1].rec>>, 1) = 1

=============================================================================
